---- MODULE Spec2Model ----
(***************************************************************************)
(* Model of the image normalization pipeline of image_service:             *)
(* ImageProcessor (core.py), ImageStorage (storage.py), MetadataExtractor  *)
(* (metadata.py), the pydantic models (models.py) and the path helpers of  *)
(* ImageServiceConfig (config.py).                                         *)
(***************************************************************************)
EXTENDS Integers, Sequences, FiniteSets, TLC

VARIABLES
    req,      \* per request: the arguments of process / process_sync
    pc,       \* per request: the position in the pipeline
    loc,      \* per request: the local variables of process_image_sync
    result,   \* per request: what the call returned or raised
    wrote,    \* per request: the files this request wrote
    mkdirs,   \* per request: the directories this request asked to create
    src,      \* the input side of the filesystem: path -> entry
    dirs,     \* the directories that exist under the workspace
    files,    \* the image store: path -> file content
    pool,     \* the worker pool: its state, and how often it took each request
    hist,     \* per request: the stages it ran and what the environment answered
    fn_in,    \* input of the pure function under check
    fn_out    \* its result

vars == <<req, pc, loc, result, wrote, mkdirs, src, dirs, files, pool, hist, fn_in, fn_out>>
pipeVars == <<req, pc, loc, result, wrote, mkdirs, src, dirs, files, pool, hist>>
fnVars == <<fn_in, fn_out>>

\* Python's None where a str (a path, a format name, an id) is expected;
\* strings are character sequences, and no real string holds this token
None == <<"None">>

\* "no exception was raised"
NoError == [type |-> "none"]

\* the outcome of a call: the value it returns or the exception it raises
Raised(error) == [ok |-> FALSE, error |-> error]
Value(v) == [ok |-> TRUE, value |-> v]

Max(a, b) == IF a >= b THEN a ELSE b
Min(a, b) == IF a <= b THEN a ELSE b

(***************************************************************************)
(* Paths are sequences of characters, so that Path.suffix and str.lower    *)
(* are computed, not assumed.                                              *)
(***************************************************************************)
LowerChar(c) ==
    CASE c = "J" -> "j" [] c = "P" -> "p" [] c = "G" -> "g" [] c = "N" -> "n"
      [] c = "E" -> "e" [] c = "T" -> "t" [] c = "X" -> "x" [] c = "W" -> "w"
      [] c = "B" -> "b" [] c = "M" -> "m" [] c = "I" -> "i" [] c = "F" -> "f"
      [] OTHER -> c

\* str.lower()
Lower(s) == [i \in 1..Len(s) |-> LowerChar(s[i])]

\* index of the last occurrence of character c in s, 0 when there is none
RFind(s, c) ==
    LET hits == {i \in 1..Len(s) : s[i] = c}
    IN  IF hits = {} THEN 0 ELSE CHOOSE i \in hits : \A j \in hits : j <= i

\* PurePath.name: the final component of the path
PathName(p) == SubSeq(p, RFind(p, "/") + 1, Len(p))

\* PurePath.suffix: the last dot of the name and what follows it, unless the
\* dot is the first or the last character of the name
PathSuffix(p) ==
    LET name == PathName(p)
        i == RFind(name, ".")
    IN  IF 1 < i /\ i < Len(name) THEN SubSeq(name, i, Len(name)) ELSE <<>>

\* PurePath.stem: the name without its suffix
PathStem(p) ==
    LET name == PathName(p)
        i == RFind(name, ".")
    IN  IF 1 < i /\ i < Len(name) THEN SubSeq(name, 1, i - 1) ELSE name

\* ImageServiceConfig.supported_extensions (default)
supported_extensions ==
    { <<".", "j", "p", "g">>, <<".", "j", "p", "e", "g">>, <<".", "p", "n", "g">>,
      <<".", "w", "e", "b", "p">>, <<".", "b", "m", "p">>,
      <<".", "t", "i", "f", "f">>, <<".", "t", "i", "f">> }

\* ImageServiceConfig.is_supported_format
is_supported_format(file_path) == Lower(PathSuffix(file_path)) \in supported_extensions

\* ImageProcessingError(message, file_path).  A message is the sequence of
\* its parts, so that f"...: {e}" keeps the message of the exception it wraps.
ImageProcessingError(message, file_path) ==
    [type |-> "ImageProcessingError", message |-> message, file_path |-> file_path]

\* an exception of another class
OtherError(cls, message) == [type |-> cls, message |-> message, file_path |-> None]

\* what stat() of a path yields: kind is "missing", "dir" or "file"
StatOf(kind, size) == [kind |-> kind, size |-> size]

\* the variant of validate_file that forgets the size check
validate_file_NoSizeCheck(file_path, st) ==
    IF file_path = None \/ file_path = <<>>          \* not file_path
    THEN ImageProcessingError(<<"File path is required">>, None)
    ELSE IF st.kind = "missing"
    THEN ImageProcessingError(<<"File not found">>, file_path)
    ELSE IF st.kind # "file"
    THEN ImageProcessingError(<<"Path is not a file">>, file_path)
    ELSE IF ~is_supported_format(file_path)
    THEN ImageProcessingError(<<"Unsupported format">>, file_path)
    ELSE NoError

\* ImageProcessor.validate_file: NoError when the file passes, the raised error
\* otherwise.  st is the stat of file_path at the time of the call.
validate_file(file_path, st) ==
    IF file_path = None \/ file_path = <<>>          \* not file_path
    THEN ImageProcessingError(<<"File path is required">>, None)
    ELSE IF st.kind = "missing"
    THEN ImageProcessingError(<<"File not found">>, file_path)
    ELSE IF st.kind # "file"
    THEN ImageProcessingError(<<"Path is not a file">>, file_path)
    ELSE IF st.size = 0
    THEN ImageProcessingError(<<"File is empty">>, file_path)
    ELSE IF ~is_supported_format(file_path)
    THEN ImageProcessingError(<<"Unsupported format">>, file_path)
    ELSE NoError

(***************************************************************************)
(* Images.  A decoded image is its mode, its size, the value of one        *)
(* sampled pixel (the conversions are pixel-wise), its palette and the     *)
(* info["transparency"] key.  A pixel is a record whose fields are the     *)
(* bands of the mode: r,g,b / r,g,b,a / l / l,a / i (a palette index).     *)
(***************************************************************************)
\* ImageServiceConfig.max_width, max_height: scaled down from 2048 x 2048
max_width == 4
max_height == 3

\* the largest width or height of a decoded image
MaxDim == 9

\* info has no "transparency" key
NoIdx == 0 - 1

White == [r |-> 255, g |-> 255, b |-> 255]

\* the palette of the palette images: index -> colour
Palette == <<[r |-> 0, g |-> 0, b |-> 0], [r |-> 200, g |-> 10, b |-> 10]>>

\* a pixel that came out of a resampling filter: its value is not tracked
Resampled == [resampled |-> TRUE]

\* format is Image.format: the decoder's name for the file format, and None
\* for every image that did not come straight out of Image.open
MkImage(mode, width, height, px, transparency) ==
    [mode |-> mode, width |-> width, height |-> height, px |-> px,
     transparency |-> transparency, format |-> None]

\* the image Image.open yields for a file of the given format
Decoded(image, format) == [image EXCEPT !.format = format]

\* Image.copy(): the pixels, the palette and info, but not the format
ImageCopy(image) == [image EXCEPT !.format = None]

\* no image
NoImage == MkImage("None", 0, 0, White, NoIdx)

\* Pillow's MULDIV255: a * b / 255, rounded
MulDiv255(a, b) ==
    LET tmp == a * b + 128
    IN  ((tmp \div 256) + tmp) \div 256

\* Pillow's BLEND8: the blend of `under` and `over` by an 8-bit mask value
Blend8(mask, under, over) == MulDiv255(under, 255 - mask) + MulDiv255(over, mask)

\* Image.paste(im, mask=alpha band) of one RGB(A) pixel onto the background
PasteMasked(bg, px) ==
    [r |-> Blend8(px.a, bg.r, px.r), g |-> Blend8(px.a, bg.g, px.g),
     b |-> Blend8(px.a, bg.b, px.b)]

\* Image.convert('RGBA') of a palette pixel: the palette colour, transparent
\* where the index is the transparency key
PaletteToRGBA(px, transparency) ==
    [r |-> Palette[px.i + 1].r, g |-> Palette[px.i + 1].g, b |-> Palette[px.i + 1].b,
     a |-> IF px.i = transparency THEN 0 ELSE 255]

\* Image.convert('RGB') of one pixel
ConvertRGB(mode, px) ==
    CASE mode = "L" -> [r |-> px.l, g |-> px.l, b |-> px.l]
      [] mode = "P" -> [r |-> Palette[px.i + 1].r, g |-> Palette[px.i + 1].g,
                        b |-> Palette[px.i + 1].b]
      [] mode = "LA" -> [r |-> px.l, g |-> px.l, b |-> px.l]
      [] mode = "RGBA" -> [r |-> px.r, g |-> px.g, b |-> px.b]
      [] OTHER -> px

\* Image.paste(im) with no mask onto an RGB image: a palette image is first
\* converted to RGB; an LA image is copied band for band, so its L value lands
\* in r, g and b and its alpha band is dropped
PasteUnmasked(bg, mode, px) ==
    IF mode = "P" THEN ConvertRGB("P", px)
    ELSE [r |-> px.l, g |-> px.l, b |-> px.l]

\* optimize_image, first half: "Convert to RGB if necessary"
ModeNormalize(image) ==
    IF image.mode \in {"RGBA", "LA", "P"}
    THEN LET rgb ==
               IF image.mode = "RGBA" THEN PasteMasked(White, image.px)
               ELSE IF image.mode = "P" /\ image.transparency # NoIdx
               THEN PasteMasked(White, PaletteToRGBA(image.px, image.transparency))
               ELSE PasteUnmasked(White, image.mode, image.px)
         IN  MkImage("RGB", image.width, image.height, rgb, NoIdx)
    ELSE IF image.mode # "RGB"
    THEN MkImage("RGB", image.width, image.height,
                 ConvertRGB(image.mode, image.px), image.transparency)
    ELSE image

\* a ratio that takes the larger of the two quotients
Ratio_Max(width, height) ==
    IF max_width * height >= max_height * width
    THEN <<max_width, width>> ELSE <<max_height, height>>

\* ratio = min(max_width / image.width, max_height / image.height), as the
\* fraction <<numerator, denominator>>
Ratio(width, height) ==
    IF max_width * height <= max_height * width
    THEN <<max_width, width>> ELSE <<max_height, height>>

\* num / den is a binary fraction, which a float holds exactly
Dyadic(num, den) == \E k \in 0..den : (num * 2^k) % den = 0

\* int(dim * ratio) in binary floating point: the truncated exact product,
\* and, when the exact product is a whole number and the ratio is not a
\* binary fraction, also one less (the float product can fall just below it)
TruncScaled(dim, num, den) ==
    LET q == (dim * num) \div den
    IN  IF (dim * num) % den = 0 /\ ~Dyadic(num, den) THEN {q, q - 1} ELSE {q}

\* a resize that scales every image to the maximum, small ones included
SizeNormalize_Upscale(image) ==
    LET num == Ratio(image.width, image.height)[1]
        den == Ratio(image.width, image.height)[2]
    IN  { Value(MkImage(image.mode, nw, nh, Resampled, image.transparency))
          : nw \in {(image.width * num) \div den},
            nh \in {(image.height * num) \div den} }

\* a resize that accepts a size with a zero
SizeNormalize_ZeroAccepted(image) ==
    IF image.width > max_width \/ image.height > max_height
    THEN LET num == Ratio(image.width, image.height)[1]
             den == Ratio(image.width, image.height)[2]
         IN  { Value(MkImage(image.mode, nw, nh, Resampled, image.transparency))
               : nw \in TruncScaled(image.width, num, den),
                 nh \in TruncScaled(image.height, num, den) }
    ELSE { Value(image) }

\* optimize_image, second half: "Resize if image is too large".  The set of
\* results the floating-point arithmetic allows; Image.resize raises
\* ValueError for a size with a zero.
SizeNormalize(image) ==
    IF image.width > max_width \/ image.height > max_height
    THEN LET num == Ratio(image.width, image.height)[1]
             den == Ratio(image.width, image.height)[2]
         IN  { IF nw < 1 \/ nh < 1
               THEN Raised(OtherError("ValueError", <<"height and width must be > 0">>))
               ELSE Value(MkImage(image.mode, nw, nh, Resampled, image.transparency))
               : nw \in TruncScaled(image.width, num, den),
                 nh \in TruncScaled(image.height, num, den) }
    ELSE { Value(image) }

\* ImageProcessor.optimize_image: the set of possible results, each either
\* the optimized image or the ImageProcessingError that wraps the failure
\* (raised without a file_path)
optimize_image(image) ==
    { IF o.ok THEN o
      ELSE Raised(ImageProcessingError(<<"Failed to optimize image">> \o o.error.message,
                                       None))
      : o \in SizeNormalize(ModeNormalize(image)) }

(***************************************************************************)
(* models.py: the pydantic models.  A constructor yields either the value  *)
(* or the ValidationError it raises.                                       *)
(***************************************************************************)
ValidationError(message) == OtherError("ValidationError", <<message>>)

\* ImageMetadata.validate_positive
validate_positive(v) == v > 0

\* "Unknown" and the other str values a str field accepts
Unknown == <<"U", "n", "k", "n", "o", "w", "n">>

\* ImageMetadata(...): width, height and file_size pass validate_positive,
\* mode and format are required str fields (None is rejected)
ImageMetadata(width, height, mode, format, file_size, has_transparency, exif) ==
    IF /\ validate_positive(width)
       /\ validate_positive(height)
       /\ validate_positive(file_size)
       /\ mode # "None"
       /\ format # None
    THEN Value([width |-> width, height |-> height, mode |-> mode, format |-> format,
                file_size |-> file_size, has_transparency |-> has_transparency,
                exif |-> exif])
    ELSE Raised(ValidationError("ImageMetadata"))

NoMetadata ==
    [width |-> 0, height |-> 0, mode |-> "None", format |-> None, file_size |-> 0,
     has_transparency |-> FALSE, exif |-> None]

\* str.strip() is empty: the string holds nothing but spaces
IsBlank(s) == \A i \in 1..Len(s) : s[i] = " "

\* Page(...): validate_page_number and validate_image_path
Page(page_number, text_content, image_path, thumbnail_path, metadata) ==
    IF page_number > 0 /\ image_path # None /\ ~IsBlank(image_path)
    THEN Value([page_number |-> page_number, text_content |-> text_content,
                image_path |-> image_path, thumbnail_path |-> thumbnail_path,
                metadata |-> metadata, document_name |-> None, document_id |-> None])
    ELSE Raised(ValidationError("Page"))

NoPage ==
    [page_number |-> 0, text_content |-> None, image_path |-> None,
     thumbnail_path |-> None, metadata |-> NoMetadata, document_name |-> None,
     document_id |-> None]

\* a pages validator that accepts any list
validate_pages_count_Any(v, num_pages_valid, num_pages) == TRUE

\* Document.validate_pages_count: num_pages is in `values` only when it passed
\* its own validator
validate_pages_count(v, num_pages_valid, num_pages) ==
    ~(num_pages_valid /\ Len(v) # num_pages)

\* Document(...): validate_title, validate_num_pages, validate_pages_count
Document(id, title, file_path, num_pages, pages, status, metadata) ==
    LET title_ok == title # None /\ ~IsBlank(title)
        num_pages_ok == num_pages > 0
        pages_ok == validate_pages_count(pages, num_pages_ok, num_pages)
    IN  IF title_ok /\ num_pages_ok /\ pages_ok /\ file_path # None
        THEN Value([id |-> id, title |-> title, file_path |-> file_path,
                    num_pages |-> num_pages, pages |-> pages, status |-> status,
                    metadata |-> metadata])
        ELSE Raised(ValidationError("Document"))

\* a Document whose pages are left as they were built
update_page_references_Skipped(document) == document

\* Document.update_page_references
update_page_references(document) ==
    [document EXCEPT !.pages =
        [i \in 1..Len(document.pages) |->
            [document.pages[i] EXCEPT !.document_name = document.title,
                                      !.document_id = document.id]]]

(***************************************************************************)
(* config.py and storage.py: the directory layout, the artifact names and  *)
(* the files.  A path is a sequence of characters; a directory name, the   *)
(* "img_" / "thumb_" prefixes and a digest are each one token of it.       *)
(***************************************************************************)
Fwebp == <<"w", "e", "b", "p">>
Fjpeg == <<"j", "p", "e", "g">>
Fjpg == <<"j", "p", "g">>
Fpng == <<"p", "n", "g">>
Fxyz == <<"x", "y", "z">>

\* ImageServiceConfig defaults
workspace_base == <<"workspace_X">>
image_store_folder == <<"PlanoraAgent/image_store">>
thumbnail_folder == <<"thumbnails">>
default_output_format == Fwebp
enable_thumbnails == TRUE

\* ImageServiceConfig.thumbnail_size: scaled down from 200
thumbnail_size == 2

\* pathlib's `/`
Join(dir, name) == dir \o <<"/">> \o name

\* ImageServiceConfig.get_workspace_path
get_workspace_path(workspace) ==
    IF workspace # None /\ workspace # <<>> THEN workspace ELSE workspace_base

\* ImageServiceConfig.get_image_store_path
get_image_store_path(workspace) == Join(get_workspace_path(workspace), image_store_folder)

\* ImageServiceConfig.get_thumbnail_path
get_thumbnail_path(workspace) == Join(get_image_store_path(workspace), thumbnail_folder)

\* hashlib.md5(s).hexdigest()[:12], taken to be collision-free: one token
\* per distinct input
Md5Hex12(s) == ToString(s)

\* a filename that hashes the path alone
generate_filename_NoMtime(original_path, format, st) ==
    LET extension == IF Lower(format) = Fjpeg THEN Fjpg ELSE Lower(format)
    IN  <<"img_", Md5Hex12(original_path \o <<"_">>), ".">> \o extension

\* ImageStorage.generate_filename; st is the stat of original_path
generate_filename(original_path, format, st) ==
    LET hash_input == original_path \o <<"_">>
                        \o (IF st.kind # "missing" THEN <<ToString(st.mtime)>> ELSE <<>>)
        extension == IF Lower(format) = Fjpeg THEN Fjpg ELSE Lower(format)
    IN  <<"img_", Md5Hex12(hash_input), ".">> \o extension

\* a thumbnail named after the whole filename of the image, suffix included
generate_thumbnail_filename_OfName(image_filename) ==
    <<"thumb_">> \o PathName(image_filename) \o <<".">> \o Fjpg

\* ImageStorage.generate_thumbnail_filename
generate_thumbnail_filename(image_filename) ==
    <<"thumb_">> \o PathStem(image_filename) \o <<".">> \o Fjpg

\* the format name save_image hands to Image.save
save_format(format) ==
    IF Lower(format) \in {Fjpeg, Fjpg} THEN Fjpeg
    ELSE IF Lower(format) = Fwebp THEN Fwebp
    ELSE Lower(format)      \* format.upper(); Pillow's registry ignores case

\* the formats Pillow registers a writer for (those the model uses)
PillowWriters == {Fjpeg, Fwebp, Fpng}

\* the byte size of an encoded image: positive for every image
EncodedSize(image, fmt) ==
    image.width * image.height + (IF fmt = Fjpeg THEN 2 ELSE IF fmt = Fwebp THEN 1 ELSE 3)

\* a file of the image store: who wrote it, whether the write is complete
\* (an opened file is truncated to zero bytes until its data is written)
FileContent(writer, state, image, fmt) ==
    [writer |-> writer, state |-> state, image |-> image, fmt |-> fmt]

\* Path.stat().st_size of a stored file
StSize(content) ==
    IF content.state = "open" THEN 0 ELSE EncodedSize(content.image, content.fmt)

\* Image.thumbnail(size): the size that fits the box and keeps the aspect
\* ratio, never below 1 x 1
ThumbnailFit(image) ==
    IF image.width <= thumbnail_size /\ image.height <= thumbnail_size THEN image
    ELSE IF image.width >= image.height
    THEN MkImage(image.mode, thumbnail_size,
                 Max((2 * image.height * thumbnail_size + image.width)
                        \div (2 * image.width), 1),
                 Resampled, image.transparency)
    ELSE MkImage(image.mode,
                 Max((2 * image.width * thumbnail_size + image.height)
                        \div (2 * image.height), 1),
                 thumbnail_size, Resampled, image.transparency)

(***************************************************************************)
(* metadata.py                                                             *)
(***************************************************************************)
\* MetadataExtractor._check_transparency
check_transparency(image) ==
    IF image.mode \in {"RGBA", "LA"} THEN TRUE
    ELSE image.transparency # NoIdx

\* MetadataExtractor.extract_basic_metadata.  st is the stat of file_path at
\* the time of the call and readable tells whether os.path.getsize succeeds;
\* when it raises, the zeroed dictionary is returned.
extract_basic_metadata(image, file_path, st, readable) ==
    IF st.kind # "missing" /\ ~readable
    THEN [width |-> 0, height |-> 0, mode |-> "Unknown", format |-> Unknown,
          file_size |-> 0, has_transparency |-> FALSE]
    ELSE [width |-> image.width, height |-> image.height, mode |-> image.mode,
          format |-> IF image.format # None THEN image.format ELSE Unknown,
          file_size |-> IF st.kind # "missing" THEN st.size ELSE 0,
          has_transparency |-> check_transparency(image)]

\* MetadataExtractor.create_image_metadata: the ImageMetadata, or the
\* exception that escapes when the fallback constructor raises as well
create_image_metadata(image, file_path, processed_size, st, readable) ==
    LET basic_meta == extract_basic_metadata(image, file_path, st, readable)
        exif_data == None
        made == ImageMetadata(processed_size[1], processed_size[2], basic_meta.mode,
                              basic_meta.format, basic_meta.file_size,
                              basic_meta.has_transparency, exif_data)
    IN  IF made.ok THEN made
        ELSE ImageMetadata(image.width, image.height, image.mode, image.format, 0,
                           FALSE, None)

(***************************************************************************)
(* The filesystem the requests read, and the requests.                     *)
(***************************************************************************)
Requests == {1, 2}

\* ThreadPoolExecutor(max_workers=4)
max_workers == 4

\* the clock readings time.time() can return, in seconds
MaxClock == 1

PEmpty == <<>>
PZero == <<"z", ".", "p", "n", "g">>
PBad == <<"b", ".", "j", "p", "g">>
PLong == <<"l", ".", "p", "n", "g">>
PPhoto == <<"p", ".", "P", "N", "G">>
PTrunc == <<"t", ".", "p", "n", "g">>

SrcPaths == {PEmpty, PZero, PBad, PTrunc, PLong, PPhoto}

\* an entry of the input filesystem: its kind ("missing", "dir", "file"), its
\* byte size and modification time, whether its data decodes, and the image
\* it decodes to
SrcEntry(kind, size, mtime, decodes, image) ==
    [kind |-> kind, size |-> size, mtime |-> mtime, decodes |-> decodes, image |-> image]

Missing == SrcEntry("missing", 0, 0, FALSE, NoImage)

\* the input files the requests name: a zero-byte file, a file of garbage
\* named .jpg, an image file cut short after its header (Image.open reads
\* the header, img.load() raises), an elongated image that scales to a zero
\* height,
\* and an over-size photo with an alpha channel whose sampled pixel is
\* fully transparent
SrcInit ==
    [p \in SrcPaths |->
        CASE p = PEmpty -> SrcEntry("dir", 0, 1, FALSE, NoImage)
          [] p = PZero -> SrcEntry("file", 0, 1, FALSE, NoImage)
          [] p = PBad -> SrcEntry("file", 1, 1, FALSE, NoImage)
          [] p = PTrunc -> SrcEntry("file", 1, 1, FALSE,
                                    Decoded(MkImage("RGB", 1, 1,
                                                    [r |-> 0, g |-> 0, b |-> 0], NoIdx),
                                            Fpng))
          [] p = PLong -> SrcEntry("file", 1, 1, TRUE,
                                   Decoded(MkImage("RGB", MaxDim, 1,
                                                   [r |-> 0, g |-> 0, b |-> 0], NoIdx),
                                           Fpng))
          [] p = PPhoto -> SrcEntry("file", 2, 1, TRUE,
                                    Decoded(MkImage("RGBA", max_width + 1, max_height,
                                                    [r |-> 0, g |-> 0, b |-> 0, a |-> 0],
                                                    NoIdx),
                                            Fpng))]

\* os.stat of a path of the input filesystem
StatSrc(p) == IF p \in DOMAIN src THEN src[p] ELSE Missing

\* the output formats the callers ask for: none (the default, webp), jpeg,
\* and two formats outside the supported set, one Pillow can write and one
\* it cannot
OutputFormats == {None, Fjpeg, Fpng, Fxyz}

NoReq ==
    [entry |-> "none", file_path |-> None, workspace |-> None, output_format |-> None,
     document_id |-> None]

NoLoc ==
    [original_image |-> NoImage, optimized_image |-> NoImage, output_format |-> None,
     save_path |-> None, file_size |-> 0 - 1, thumbnail_path |-> None,
     metadata |-> NoMetadata, page |-> NoPage]

NoResult == [kind |-> "none"]
Returned(document) == [kind |-> "returned", document |-> document]
\* stage is the stage of the pipeline the exception came from
RaisedTo(error, stage) == [kind |-> "raised", error |-> error, stage |-> stage]

\* the stages a pool worker runs (process_image_sync)
WorkerStages == {"load", "optimize", "save_open", "save_write", "stat", "thumbnail",
                 "metadata", "page"}

\* f"...: {e}" raised with the request's file_path
Wrap(prefix, e, file_path) == ImageProcessingError(<<prefix>> \o e.message, file_path)

\* except clauses that let every exception through as it is
ProcessExcept_Reraise(e, file_path) == e

\* what the except clauses of process / process_sync let out: an
\* ImageProcessingError as it is, anything else wrapped
ProcessExcept(e, file_path) ==
    IF e.type = "ImageProcessingError" THEN e
    ELSE Wrap("Processing failed", e, file_path)

\* what the except clause of process_image_sync lets out
ProcessImageExcept(e, file_path) == Wrap("Image processing failed", e, file_path)

Fail(r, stage, e) ==
    /\ result' = [result EXCEPT ![r] = RaisedTo(e, stage)]
    /\ pc' = [pc EXCEPT ![r] = "done"]

\* the request has run the stages named in `entries`, each with the answer
\* the environment gave it
LogAll(r, entries) == hist' = [hist EXCEPT ![r] = @ \o entries]
Log(r, stage, answer) == LogAll(r, <<<<stage, answer>>>>)

\* the executor as __init__ builds it: accepting work, no request taken
PoolOpen(requests) ==
    [state |-> "open", taken |-> [r \in requests |-> 0], inflight |-> {}]

\* no request has been made, the workspace is empty
PipeIdle ==
    /\ req = [r \in Requests |-> NoReq]
    /\ pc = [r \in Requests |-> "idle"]
    /\ loc = [r \in Requests |-> NoLoc]
    /\ result = [r \in Requests |-> NoResult]
    /\ wrote = [r \in Requests |-> {}]
    /\ mkdirs = [r \in Requests |-> {}]
    /\ src = SrcInit
    /\ dirs = {}
    /\ files = <<>>
    /\ pool = PoolOpen(Requests)
    /\ hist = [r \in Requests |-> <<>>]

Init ==
    /\ PipeIdle
    /\ fn_in = [fn |-> "none"]
    /\ fn_out = [fn |-> "none"]

\* a caller invokes process (entry "process") or process_sync
Call(r) ==
    /\ pc[r] = "idle"
    /\ \E entry \in {"process", "process_sync"}, file_path \in SrcPaths,
          output_format \in OutputFormats :
          req' = [req EXCEPT ![r] = [entry |-> entry, file_path |-> file_path,
                                     workspace |-> None, output_format |-> output_format,
                                     document_id |-> None]]
    /\ pc' = [pc EXCEPT ![r] = "validate"]
    /\ UNCHANGED <<loc, result, wrote, mkdirs, src, dirs, files, pool, hist, fn_in, fn_out>>

\* ImageServiceConfig.ensure_directories: both mkdir(parents=True, exist_ok=True)
EnsuredDirs(workspace) == {get_image_store_path(workspace), get_thumbnail_path(workspace)}

\* a process that creates the workspace directories before it validates
Validate_DirsFirst(r) ==
    /\ pc[r] = "validate"
    /\ dirs' = dirs \cup EnsuredDirs(req[r].workspace)
    /\ mkdirs' = [mkdirs EXCEPT ![r] = @ \cup EnsuredDirs(req[r].workspace)]
    /\ LET e == validate_file(req[r].file_path, StatSrc(req[r].file_path))
       IN  IF e # NoError
           THEN Fail(r, "validate", ProcessExcept(e, req[r].file_path))
           ELSE /\ pc' = [pc EXCEPT ![r] = "ensure_dirs"]
                /\ UNCHANGED result
    /\ Log(r, "validate", StatSrc(req[r].file_path).kind)
    /\ UNCHANGED <<req, loc, wrote, src, files, pool, fn_in, fn_out>>

\* self.validate_file(file_path)
Validate(r) ==
    /\ pc[r] = "validate"
    /\ LET e == validate_file(req[r].file_path, StatSrc(req[r].file_path))
       IN  IF e # NoError
           THEN Fail(r, "validate", ProcessExcept(e, req[r].file_path))
           ELSE /\ pc' = [pc EXCEPT ![r] = "ensure_dirs"]
                /\ UNCHANGED result
    /\ Log(r, "validate", StatSrc(req[r].file_path).kind)
    /\ UNCHANGED <<req, loc, wrote, mkdirs, src, dirs, files, pool, fn_in, fn_out>>

\* self.config.ensure_directories(workspace); then process_sync calls
\* process_image_sync, and process hands it to the pool (run_in_executor),
\* which raises RuntimeError once the pool has been shut down.  mkdir can
\* raise OSError.
EnsureDirs(r) ==
    /\ pc[r] = "ensure_dirs"
    /\ \E ok \in BOOLEAN :
          IF ~ok
          THEN /\ Fail(r, "ensure_dirs", ProcessExcept(OtherError("OSError", <<"mkdir">>),
                                        req[r].file_path))
               /\ Log(r, "ensure_dirs", ok)
               /\ UNCHANGED <<dirs, mkdirs>>
          ELSE /\ dirs' = dirs \cup EnsuredDirs(req[r].workspace)
               /\ mkdirs' = [mkdirs EXCEPT ![r] = @ \cup EnsuredDirs(req[r].workspace)]
               /\ IF req[r].entry # "process"
                  THEN /\ pc' = [pc EXCEPT ![r] = "load"]
                       /\ Log(r, "ensure_dirs", ok)
                       /\ UNCHANGED result
                  ELSE /\ LogAll(r, <<<<"ensure_dirs", ok>>, <<"submit", pool.state>>>>)
                       /\ IF pool.state = "open"
                          THEN /\ pc' = [pc EXCEPT ![r] = "queued"]
                               /\ UNCHANGED result
                          ELSE Fail(r, "submit",
                                    ProcessExcept(
                                        OtherError("RuntimeError",
                                                   <<"cannot schedule new futures after shutdown">>),
                                        req[r].file_path))
    /\ UNCHANGED <<req, loc, wrote, src, files, pool, fn_in, fn_out>>

\* the requests a pool worker is running
OnWorker == {q \in DOMAIN pc : req[q].entry = "process" /\ pc[q] \in WorkerStages}

\* a pool that starts one more thread for every request it is given
WorkerStart_Unbounded(r) ==
    /\ pc[r] = "queued"
    /\ pc' = [pc EXCEPT ![r] = "load"]
    /\ pool' = [pool EXCEPT !.taken[r] = @ + 1]
    /\ UNCHANGED <<req, loc, result, wrote, mkdirs, src, dirs, files, hist, fn_in, fn_out>>

\* loop.run_in_executor: a free worker of the pool takes the request, and
\* runs process_image_sync to its end
WorkerStart(r) ==
    /\ pc[r] = "queued"
    /\ Cardinality(OnWorker) < max_workers
    /\ pc' = [pc EXCEPT ![r] = "load"]
    /\ pool' = [pool EXCEPT !.taken[r] = @ + 1]
    /\ UNCHANGED <<req, loc, result, wrote, mkdirs, src, dirs, files, hist, fn_in, fn_out>>

\* a load_image with one except clause for every failure
load_image_OneClause(file_path, st) ==
    IF st.kind = "file" /\ st.decodes
    THEN Value(ImageCopy(st.image))
    ELSE Raised(ImageProcessingError(<<"Failed to load image">>, file_path))

\* ImageProcessor.load_image: the copy of the decoded image, or the error
load_image(file_path, st) ==
    IF st.kind = "file" /\ st.decodes
    THEN Value(ImageCopy(st.image))
    ELSE IF st.kind = "file" /\ st.image = NoImage     \* Image.UnidentifiedImageError
    THEN Raised(ImageProcessingError(<<"Unrecognized image format">>, file_path))
    ELSE Raised(ImageProcessingError(<<"Failed to load image">>, file_path))

\* original_image = self.load_image(file_path)
Load(r) ==
    /\ pc[r] = "load"
    /\ LET got == load_image(req[r].file_path, StatSrc(req[r].file_path))
       IN  IF got.ok
           THEN /\ loc' = [loc EXCEPT ![r].original_image = got.value,
                                      ![r].output_format =
                                          IF req[r].output_format \in {None, <<>>}
                                          THEN default_output_format
                                          ELSE req[r].output_format]
                /\ pc' = [pc EXCEPT ![r] = "optimize"]
                /\ UNCHANGED result
           ELSE /\ Fail(r, "load", ProcessExcept(ProcessImageExcept(got.error, req[r].file_path),
                                         req[r].file_path))
                /\ UNCHANGED loc
    /\ Log(r, "load", <<StatSrc(req[r].file_path).kind, StatSrc(req[r].file_path).decodes>>)
    /\ UNCHANGED <<req, wrote, mkdirs, src, dirs, files, pool, fn_in, fn_out>>

\* optimized_image = self.optimize_image(original_image)
Optimize(r) ==
    /\ pc[r] = "optimize"
    /\ \E o \in optimize_image(loc[r].original_image) :
          /\ Log(r, "optimize", o)
          /\ IF o.ok
             THEN /\ loc' = [loc EXCEPT ![r].optimized_image = o.value]
                  /\ pc' = [pc EXCEPT ![r] = "save_open"]
                  /\ UNCHANGED result
             ELSE /\ Fail(r, "optimize", ProcessExcept(ProcessImageExcept(o.error, req[r].file_path),
                                           req[r].file_path))
                  /\ UNCHANGED loc
    /\ UNCHANGED <<req, wrote, mkdirs, src, dirs, files, pool, fn_in, fn_out>>

\* a save_image whose failure to open the destination is logged and passed
\* over, as the failure of a thumbnail is
SaveOpen_NonFatal(r) ==
    /\ pc[r] = "save_open"
    /\ LET file_path == req[r].file_path
           format == loc[r].output_format
           filename == generate_filename(file_path, format, StatSrc(file_path))
           save_path == Join(get_image_store_path(req[r].workspace), filename)
           fmt == save_format(format)
       IN  /\ dirs' = dirs \cup EnsuredDirs(req[r].workspace)
           /\ mkdirs' = [mkdirs EXCEPT ![r] = @ \cup EnsuredDirs(req[r].workspace)]
           /\ IF fmt \notin PillowWriters
              THEN /\ Fail(r, "save", ProcessExcept(
                              ProcessImageExcept(OtherError("KeyError", <<ToString(fmt)>>),
                                                 file_path), file_path))
                   /\ Log(r, "save_open", "KeyError")
                   /\ UNCHANGED <<loc, wrote, files>>
              ELSE \E opened \in BOOLEAN :
                      IF opened
                      THEN /\ Log(r, "save_open", "opened")
                           /\ files' = (save_path :>
                                          FileContent(r, "open", loc[r].optimized_image, fmt))
                                       @@ files
                           /\ wrote' = [wrote EXCEPT ![r] = @ \cup {save_path}]
                           /\ loc' = [loc EXCEPT ![r].save_path = save_path]
                           /\ pc' = [pc EXCEPT ![r] = "save_write"]
                           /\ UNCHANGED result
                      ELSE /\ Log(r, "save_open", "OSError")
                           /\ loc' = [loc EXCEPT ![r].save_path = save_path]
                           /\ pc' = [pc EXCEPT ![r] = "thumbnail"]
                           /\ UNCHANGED <<result, wrote, files>>
    /\ UNCHANGED <<req, src, pool, fn_in, fn_out>>

\* save_image up to the opening of the destination file: ensure_directories,
\* generate_filename, the choice of the writer, and open(save_path, "w+b"),
\* which truncates the file.  An unknown format raises KeyError before the
\* file is opened; the open can raise OSError.
SaveOpen(r) ==
    /\ pc[r] = "save_open"
    /\ LET file_path == req[r].file_path
           format == loc[r].output_format
           filename == generate_filename(file_path, format, StatSrc(file_path))
           save_path == Join(get_image_store_path(req[r].workspace), filename)
           fmt == save_format(format)
       IN  /\ dirs' = dirs \cup EnsuredDirs(req[r].workspace)
           /\ mkdirs' = [mkdirs EXCEPT ![r] = @ \cup EnsuredDirs(req[r].workspace)]
           /\ IF fmt \notin PillowWriters
              THEN /\ Fail(r, "save", ProcessExcept(
                              ProcessImageExcept(OtherError("KeyError", <<ToString(fmt)>>),
                                                 file_path), file_path))
                   /\ Log(r, "save_open", "KeyError")
                   /\ UNCHANGED <<loc, wrote, files>>
              ELSE \E opened \in BOOLEAN :
                      IF opened
                      THEN /\ Log(r, "save_open", "opened")
                           /\ files' = (save_path :>
                                          FileContent(r, "open", loc[r].optimized_image, fmt))
                                       @@ files
                           /\ wrote' = [wrote EXCEPT ![r] = @ \cup {save_path}]
                           /\ loc' = [loc EXCEPT ![r].save_path = save_path]
                           /\ pc' = [pc EXCEPT ![r] = "save_write"]
                           /\ UNCHANGED result
                      ELSE /\ Fail(r, "save", ProcessExcept(
                                      ProcessImageExcept(OtherError("OSError", <<"open">>),
                                                         file_path), file_path))
                           /\ Log(r, "save_open", "OSError")
                           /\ UNCHANGED <<loc, wrote, files>>
    /\ UNCHANGED <<req, src, pool, fn_in, fn_out>>

\* a filesystem on which a writer whose file another request has truncated
\* in the meantime leaves a torn file behind
SaveWrite_Torn(r) ==
    /\ pc[r] = "save_write"
    /\ files' = [files EXCEPT ![loc[r].save_path] =
                    IF @.writer = r
                    THEN FileContent(r, "done", loc[r].optimized_image,
                                     save_format(loc[r].output_format))
                    ELSE FileContent(r, "torn", loc[r].optimized_image,
                                     save_format(loc[r].output_format))]
    /\ pc' = [pc EXCEPT ![r] = "stat"]
    /\ Log(r, "save_write", "written")
    /\ UNCHANGED <<req, loc, result, wrote, mkdirs, src, dirs, pool, fn_in, fn_out>>

\* image.save(...): the encoder writes the data and the file is closed
SaveWrite(r) ==
    /\ pc[r] = "save_write"
    /\ files' = [files EXCEPT ![loc[r].save_path] =
                    FileContent(r, "done", loc[r].optimized_image,
                                save_format(loc[r].output_format))]
    /\ pc' = [pc EXCEPT ![r] = "stat"]
    /\ Log(r, "save_write", "written")
    /\ UNCHANGED <<req, loc, result, wrote, mkdirs, src, dirs, pool, fn_in, fn_out>>

\* file_size = save_path.stat().st_size
Stat(r) ==
    /\ pc[r] = "stat"
    /\ loc' = [loc EXCEPT ![r].file_size = StSize(files[loc[r].save_path])]
    /\ pc' = [pc EXCEPT ![r] = "thumbnail"]
    /\ Log(r, "stat", StSize(files[loc[r].save_path]))
    /\ UNCHANGED <<req, result, wrote, mkdirs, src, dirs, files, pool, fn_in, fn_out>>

\* ImageStorage.create_thumbnail: the path of the thumbnail, or None when a
\* step of it (mkdir, thumbnail, save) raised
create_thumbnail(original_filename, workspace, fault) ==
    IF ~enable_thumbnails \/ fault # "none" THEN None
    ELSE Join(get_thumbnail_path(workspace), generate_thumbnail_filename(original_filename))

\* thumbnail_path = self.storage.create_thumbnail(...)
Thumbnail(r) ==
    /\ pc[r] = "thumbnail"
    /\ \E fault \in {"none", "mkdir", "thumbnail", "save"} :
          LET thumbnail_path == create_thumbnail(PathName(loc[r].save_path),
                                                 req[r].workspace, fault)
          IN  /\ loc' = [loc EXCEPT ![r].thumbnail_path = thumbnail_path]
              /\ Log(r, "thumbnail", fault = "none")
              /\ IF thumbnail_path # None
                 THEN /\ files' = (thumbnail_path :>
                                     FileContent(r, "done",
                                                 ThumbnailFit(loc[r].optimized_image), Fjpeg))
                                  @@ files
                      /\ wrote' = [wrote EXCEPT ![r] = @ \cup {thumbnail_path}]
                 ELSE UNCHANGED <<files, wrote>>
              /\ IF enable_thumbnails /\ fault # "mkdir"
                 THEN /\ dirs' = dirs \cup {get_thumbnail_path(req[r].workspace)}
                      /\ mkdirs' = [mkdirs EXCEPT ![r] =
                                       @ \cup {get_thumbnail_path(req[r].workspace)}]
                 ELSE UNCHANGED <<dirs, mkdirs>>
    /\ pc' = [pc EXCEPT ![r] = "metadata"]
    /\ UNCHANGED <<req, result, src, pool, fn_in, fn_out>>

\* a metadata step that describes the original file alone: its decoded size
\* and its byte size
Metadata_OfOriginal(r) ==
    /\ pc[r] = "metadata"
    /\ LET m == create_image_metadata(loc[r].original_image, req[r].file_path,
                                      <<loc[r].original_image.width,
                                        loc[r].original_image.height>>,
                                      StatSrc(req[r].file_path), TRUE)
       IN  IF m.ok
           THEN /\ loc' = [loc EXCEPT ![r].metadata = m.value]
                /\ pc' = [pc EXCEPT ![r] = "page"]
                /\ UNCHANGED result
           ELSE /\ Fail(r, "metadata", ProcessExcept(ProcessImageExcept(m.error, req[r].file_path),
                                         req[r].file_path))
                /\ UNCHANGED loc
    /\ Log(r, "metadata", TRUE)
    /\ UNCHANGED <<req, wrote, mkdirs, src, dirs, files, pool, fn_in, fn_out>>

\* a metadata step that removes the files of the request when it fails
Metadata_Rollback(r) ==
    /\ pc[r] = "metadata"
    /\ \E fault \in {"none", "getsize", "missing"} :
          LET final_size == <<loc[r].optimized_image.width, loc[r].optimized_image.height>>
              st == IF fault = "missing" THEN Missing ELSE StatSrc(req[r].file_path)
              m == create_image_metadata(loc[r].original_image, req[r].file_path,
                                         final_size, st, fault # "getsize")
          IN  /\ Log(r, "metadata", fault = "none")
              /\ IF m.ok
                 THEN /\ loc' = [loc EXCEPT ![r].metadata =
                                    [m.value EXCEPT !.file_size = loc[r].file_size]]
                      /\ pc' = [pc EXCEPT ![r] = "page"]
                      /\ UNCHANGED <<result, files>>
                 ELSE /\ Fail(r, "metadata", ProcessExcept(ProcessImageExcept(m.error, req[r].file_path),
                                               req[r].file_path))
                      /\ files' = [q \in DOMAIN files \ wrote[r] |-> files[q]]
                      /\ UNCHANGED loc
    /\ UNCHANGED <<req, wrote, mkdirs, src, dirs, pool, fn_in, fn_out>>

\* metadata = create_image_metadata(original_image, file_path, final_size);
\* metadata.file_size = file_size (an assignment, which pydantic does not
\* validate).  By now the input file may have been removed ("missing"), or
\* os.path.getsize may raise ("getsize").
Metadata(r) ==
    /\ pc[r] = "metadata"
    /\ \E fault \in {"none", "getsize", "missing"} :
          LET final_size == <<loc[r].optimized_image.width, loc[r].optimized_image.height>>
              st == IF fault = "missing" THEN Missing ELSE StatSrc(req[r].file_path)
              m == create_image_metadata(loc[r].original_image, req[r].file_path,
                                         final_size, st, fault # "getsize")
          IN  /\ Log(r, "metadata", fault = "none")
              /\ IF m.ok
                 THEN /\ loc' = [loc EXCEPT ![r].metadata =
                                    [m.value EXCEPT !.file_size = loc[r].file_size]]
                      /\ pc' = [pc EXCEPT ![r] = "page"]
                      /\ UNCHANGED result
                 ELSE /\ Fail(r, "metadata", ProcessExcept(ProcessImageExcept(m.error, req[r].file_path),
                                               req[r].file_path))
                      /\ UNCHANGED loc
    /\ UNCHANGED <<req, wrote, mkdirs, src, dirs, files, pool, fn_in, fn_out>>

\* page = Page(page_number=1, ...); process_image_sync returns
AssemblePage(r) ==
    /\ pc[r] = "page"
    /\ LET made == Page(1, None, loc[r].save_path, loc[r].thumbnail_path, loc[r].metadata)
       IN  IF made.ok
           THEN /\ loc' = [loc EXCEPT ![r].page = made.value]
                /\ pc' = [pc EXCEPT ![r] = "create_document"]
                /\ UNCHANGED result
           ELSE /\ Fail(r, "page", ProcessExcept(ProcessImageExcept(made.error, req[r].file_path),
                                         req[r].file_path))
                /\ UNCHANGED loc
    /\ Log(r, "page", "assembled")
    /\ UNCHANGED <<req, wrote, mkdirs, src, dirs, files, pool, fn_in, fn_out>>

\* str(n) of a natural number: its decimal digits
DigitChar(d) == <<"0", "1", "2", "3", "4", "5", "6", "7", "8", "9">>[d + 1]
RECURSIVE Decimal(_)
Decimal(n) == IF n < 10 THEN <<DigitChar(n)>> ELSE Decimal(n \div 10) \o <<DigitChar(n % 10)>>

\* the id create_document generates from the clock:
\* f"doc_img_{int(time.time())}"
GeneratedId(now) == <<"d", "o", "c", "_", "i", "m", "g", "_">> \o Decimal(now)

\* a create_document that derives the id it generates from the name of the
\* artifact
create_document_IdOfArtifact(page, original_file_path, document_id, now) ==
    LET title == PathName(original_file_path)
        metadata == [original_file |-> original_file_path, processor |-> "ImageProcessor",
                     file_size |-> page.metadata.file_size,
                     image_format |-> page.metadata.format,
                     dimensions |-> <<page.metadata.width, page.metadata.height>>]
        made == Document(IF document_id \in {None, <<>>} THEN <<"doc_">> \o PathStem(page.image_path)
                         ELSE document_id,
                         title, page.image_path, 1, <<page>>, "completed", metadata)
    IN  IF made.ok THEN Value(update_page_references(made.value))
        ELSE Raised(ImageProcessingError(<<"Document creation failed">> \o made.error.message,
                                         None))

\* ImageProcessor.create_document: the Document, or the ImageProcessingError
\* that wraps a failure (raised without a file_path)
create_document(page, original_file_path, document_id, now) ==
    LET title == PathName(original_file_path)
        metadata == [original_file |-> original_file_path, processor |-> "ImageProcessor",
                     file_size |-> page.metadata.file_size,
                     image_format |-> page.metadata.format,
                     dimensions |-> <<page.metadata.width, page.metadata.height>>]
        made == Document(IF document_id \in {None, <<>>} THEN GeneratedId(now)
                         ELSE document_id,
                         title, page.image_path, 1, <<page>>, "completed", metadata)
    IN  IF made.ok THEN Value(update_page_references(made.value))
        ELSE Raised(ImageProcessingError(<<"Document creation failed">> \o made.error.message,
                                         None))

\* the document ids the callers pass
DocumentIds == {None, <<"d", "1">>}

\* a process that forgets to pass the caller's document_id on
CreateDocument_ProcessDropsId(r) ==
    /\ pc[r] = "create_document"
    /\ \E document_id \in DocumentIds, now \in 0..MaxClock :
          LET made == create_document(loc[r].page, req[r].file_path,
                                      IF req[r].entry = "process" THEN None ELSE document_id,
                                      now)
          IN  /\ req' = [req EXCEPT ![r].document_id = document_id]
              /\ Log(r, "create_document", now)
              /\ result' = [result EXCEPT ![r] =
                               IF made.ok THEN Returned(made.value)
                               ELSE RaisedTo(ProcessExcept(made.error, req[r].file_path),
                                             "create_document")]
              /\ pc' = [pc EXCEPT ![r] = "done"]
    /\ UNCHANGED <<loc, wrote, mkdirs, src, dirs, files, pool, fn_in, fn_out>>

\* document = self.create_document(page, file_path, document_id); return.
\* document_id is an argument of the call that nothing reads before this
\* step, so the caller's choice of it is drawn here.
CreateDocument(r) ==
    /\ pc[r] = "create_document"
    /\ \E document_id \in DocumentIds, now \in 0..MaxClock :
          LET made == create_document(loc[r].page, req[r].file_path, document_id, now)
          IN  /\ req' = [req EXCEPT ![r].document_id = document_id]
              /\ Log(r, "create_document", now)
              /\ result' = [result EXCEPT ![r] =
                               IF made.ok THEN Returned(made.value)
                               ELSE RaisedTo(ProcessExcept(made.error, req[r].file_path),
                                             "create_document")]
              /\ pc' = [pc EXCEPT ![r] = "done"]
    /\ UNCHANGED <<loc, wrote, mkdirs, src, dirs, files, pool, fn_in, fn_out>>

Next ==
    \E r \in Requests :
          \/ Call(r)
          \/ Validate(r)
          \/ EnsureDirs(r)
          \/ WorkerStart(r)
          \/ Load(r)
          \/ Optimize(r)
          \/ SaveOpen(r)
          \/ SaveWrite(r)
          \/ Stat(r)
          \/ Thumbnail(r)
          \/ Metadata(r)
          \/ AssemblePage(r)
          \/ CreateDocument(r)

Spec == Init /\ [][Next]_vars

(***************************************************************************)
(* The processor with its shutdown: cleanup() runs beside the requests.    *)
(***************************************************************************)
\* the requests handed to the pool whose work is not finished
Pending ==
    {q \in DOMAIN pc : req[q].entry = "process" /\ pc[q] \in {"queued"} \cup WorkerStages}

\* cleanup() is called: executor.shutdown sets the shutdown flag, after which
\* submit raises, and starts to wait for the workers
CleanupCall ==
    /\ pool.state = "open"
    /\ pool' = [pool EXCEPT !.state = "draining", !.inflight = Pending]
    /\ UNCHANGED <<req, pc, loc, result, wrote, mkdirs, src, dirs, files, hist, fn_in, fn_out>>

\* a shutdown that does not wait: executor.shutdown(wait=False)
CleanupReturn_NoWait ==
    /\ pool.state = "draining"
    /\ pool' = [pool EXCEPT !.state = "shutdown"]
    /\ UNCHANGED <<req, pc, loc, result, wrote, mkdirs, src, dirs, files, hist, fn_in, fn_out>>

\* executor.shutdown(wait=True) returns: the workers have been joined, which
\* they allow once the queue is empty and their work is finished
CleanupReturn ==
    /\ pool.state = "draining"
    /\ Pending = {}
    /\ pool' = [pool EXCEPT !.state = "shutdown"]
    /\ UNCHANGED <<req, pc, loc, result, wrote, mkdirs, src, dirs, files, hist, fn_in, fn_out>>

\* the calls made beside the shutdown: of both entry points, for a photo
\* and for a file of garbage, in the default format
ShutdownCall(r) ==
    /\ Call(r)
    /\ req'[r].file_path \in {PPhoto, PBad}
    /\ req'[r].output_format = None

NextShutdown ==
    \/ CleanupCall
    \/ CleanupReturn
    \/ \E r \in Requests :
          \/ ShutdownCall(r)
          \/ Validate(r)
          \/ EnsureDirs(r)
          \/ WorkerStart(r)
          \/ Load(r)
          \/ Optimize(r)
          \/ SaveOpen(r)
          \/ SaveWrite(r)
          \/ Stat(r)
          \/ Thumbnail(r)
          \/ Metadata(r)
          \/ AssemblePage(r)
          \/ CreateDocument(r)

SpecShutdown == Init /\ [][NextShutdown]_vars

(***************************************************************************)
(* The pool under load: one request more than it has workers.              *)
(***************************************************************************)
PoolRequests == 1..(max_workers + 1)

\* each request has a source file of its own: a small opaque image
PoolPath(r) == <<DigitChar(r), ".", "p", "n", "g">>
PoolSrc ==
    [p \in {PoolPath(r) : r \in PoolRequests} |->
        SrcEntry("file", 1, 1, TRUE,
                 Decoded(MkImage("RGB", 1, 1, [r |-> 0, g |-> 0, b |-> 0], NoIdx), Fpng))]

\* every request has called process, passed validate_file and
\* ensure_directories, and handed process_image_sync to the pool
InitPool ==
    /\ req = [r \in PoolRequests |->
                 [entry |-> "process", file_path |-> PoolPath(r), workspace |-> None,
                  output_format |-> None, document_id |-> None]]
    /\ pc = [r \in PoolRequests |-> "queued"]
    /\ loc = [r \in PoolRequests |-> NoLoc]
    /\ result = [r \in PoolRequests |-> NoResult]
    /\ wrote = [r \in PoolRequests |-> {}]
    /\ mkdirs = [r \in PoolRequests |-> EnsuredDirs(None)]
    /\ src = PoolSrc
    /\ dirs = EnsuredDirs(None)
    /\ files = <<>>
    /\ pool = PoolOpen(PoolRequests)
    /\ hist = [r \in PoolRequests |->
                  <<<<"validate", "file">>, <<"ensure_dirs", TRUE>>, <<"submit", "open">>>>]
    /\ fn_in = [fn |-> "none"]
    /\ fn_out = [fn |-> "none"]

\* the filesystem fails no request here: no step ends the call with an
\* exception, and every thumbnail is written
NoFault(r) ==
    /\ pc'[r] # "done"
    /\ pc'[r] = "metadata" => loc'[r].thumbnail_path # None

\* the work of the pool: process_image_sync, from the decode to the Page
NextPool ==
    \E r \in PoolRequests :
       /\ \/ WorkerStart(r)
          \/ Load(r)
          \/ Optimize(r)
          \/ SaveOpen(r)
          \/ SaveWrite(r)
          \/ Stat(r)
          \/ Thumbnail(r)
          \/ Metadata(r)
          \/ AssemblePage(r)
       /\ NoFault(r)

SpecPool == InitPool /\ [][NextPool]_vars

(***************************************************************************)
(* validate_file and optimize_image on their own: the inputs are drawn in  *)
(* the initial state and one step applies the function.                    *)
(***************************************************************************)
\* the largest byte size of an input file
MaxFileSize == 2

\* the paths validate_file is given
ValPaths ==
    { None, <<>>,
      <<"a", ".", "j", "p", "g">>, <<"a", ".", "J", "P", "G">>,
      <<"a", ".", "J", "p", "e", "g">>, <<"a", ".", "p", "n", "g">>,
      <<"a", ".", "W", "E", "B", "P">>, <<"a", ".", "b", "m", "p">>,
      <<"a", ".", "t", "i", "f", "f">>, <<"a", ".", "T", "I", "F">>,
      <<"a", ".", "t", "x", "t">>, <<"a", ".", "g", "i", "f">>,
      <<"a", ".", "j", "p", "g", ".", "t", "x", "t">>,
      <<"a", ".", "t", "x", "t", ".", "p", "n", "g">>,
      <<".", "j", "p", "g">>, <<"a", ".">>, <<"j", "p", "g">>,
      <<"d", ".", "p", "n", "g", "/", "a">>, <<"d", "/", "a", ".", "p", "n", "g">> }

InitValidate ==
    /\ PipeIdle
    /\ fn_in \in [fn : {"validate_file"}, file_path : ValPaths,
                  kind : {"missing", "dir", "file"}, size : 0..MaxFileSize]
    /\ fn_in.file_path \in {None, <<>>} => fn_in.kind = "dir"
    /\ fn_in.kind = "missing" => fn_in.size = 0
    /\ fn_out = [fn |-> "none"]

ApplyValidate ==
    /\ fn_in.fn = "validate_file" /\ fn_out.fn = "none"
    /\ fn_out' = [fn |-> "validate_file",
                  error |-> validate_file(fn_in.file_path,
                                          StatOf(fn_in.kind, fn_in.size))]
    /\ UNCHANGED <<pipeVars, fn_in>>

NextValidate == ApplyValidate

SpecValidate == InitValidate /\ [][NextValidate]_vars

\* the sampled pixels of the decoded images, by mode
Levels == {0, 255}
Alphas == {0, 128, 255}
PixelsOf(mode) ==
    CASE mode = "RGB" -> {[r |-> 0, g |-> 0, b |-> 0], [r |-> 200, g |-> 10, b |-> 10]}
      [] mode = "RGBA" -> {[r |-> c, g |-> c, b |-> c, a |-> a] : c \in Levels, a \in Alphas}
      [] mode = "LA" -> {[l |-> l, a |-> a] : l \in Levels, a \in Alphas}
      [] mode = "L" -> {[l |-> l] : l \in Levels}
      [] mode = "P" -> {[i |-> i] : i \in {0, 1}}

\* the decoded images optimize_image is given
OptImages ==
    { MkImage(mode, w, h, px, t) :
        mode \in {"RGB", "RGBA", "LA", "L", "P"}, w \in 1..MaxDim, h \in 1..MaxDim,
        px \in UNION {PixelsOf(m) : m \in {"RGB", "RGBA", "LA", "L", "P"}},
        t \in {NoIdx, 0} }

InitOptimize ==
    /\ PipeIdle
    /\ fn_in \in [fn : {"optimize_image"}, image : OptImages]
    /\ fn_in.image.px \in PixelsOf(fn_in.image.mode)
    /\ fn_in.image.mode # "P" => fn_in.image.transparency = NoIdx
    /\ fn_out = [fn |-> "none"]

ApplyOptimize ==
    /\ fn_in.fn = "optimize_image" /\ fn_out.fn = "none"
    /\ \E o \in optimize_image(fn_in.image) :
          fn_out' = [fn |-> "optimize_image", out |-> o]
    /\ UNCHANGED <<pipeVars, fn_in>>

NextOptimize == ApplyOptimize

SpecOptimize == InitOptimize /\ [][NextOptimize]_vars

\* the largest modification time of the source file, and the number of times
\* it is named
MaxMtime == 3
MaxCalls == 3

\* the formats the artifact is named for
NamingFormats == {Fwebp, Fjpeg, <<"J", "P", "E", "G">>, Fpng}

\* save_image names its destination for one source file, again and again,
\* while the file is modified (its modification time moves on) in between
InitNaming ==
    /\ PipeIdle
    /\ fn_in \in [fn : {"generate_filename"}, original_path : {PPhoto, PLong, PBad},
                  format : NamingFormats, mtime : 1..2]
    /\ fn_out = [fn |-> "generate_filename", calls |-> <<>>]

\* filename = self.generate_filename(original_path, format);
\* save_path = image_store_path / filename
ApplyNaming ==
    /\ fn_in.fn = "generate_filename" /\ Len(fn_out.calls) < MaxCalls
    /\ LET st == SrcEntry("file", 1, fn_in.mtime, TRUE, NoImage)
           filename == generate_filename(fn_in.original_path, fn_in.format, st)
       IN  fn_out' = [fn_out EXCEPT !.calls =
                         Append(@, [mtime |-> fn_in.mtime, filename |-> filename,
                                    save_path |-> Join(get_image_store_path(None),
                                                       filename)])]
    /\ UNCHANGED <<pipeVars, fn_in>>

\* the source file is modified
TouchSource ==
    /\ fn_in.fn = "generate_filename" /\ fn_in.mtime < MaxMtime
    /\ fn_in' = [fn_in EXCEPT !.mtime = @ + 1]
    /\ UNCHANGED <<pipeVars, fn_out>>

NextNaming == ApplyNaming \/ TouchSource

SpecNaming == InitNaming /\ [][NextNaming]_vars

(***************************************************************************)
(* The upload endpoint, api.process_image.  Each upload is served by a     *)
(* handler of its own; fn_in holds what the client sent, fn_out the        *)
(* position and the locals of each handler and the upload files that exist *)
(* in the temporary directory.  os.unlink of a handler's own file is taken *)
(* to succeed.                                                             *)
(***************************************************************************)
\* the handlers that run side by side
Uploads == 1..2

\* the number of names tempfile has to give
MaxTemp == 3

\* the names tempfile can give: prefix "upload_", a random middle part
TempNames == {<<"upload_", DigitChar(n)>> : n \in 1..MaxTemp}

\* what a client can send: a file name or none, the declared size (0 when
\* the client declares none), the output_format form field
UploadInputs ==
    [filename : {<<>>, PPhoto}, size : 0..MaxFileSize,
     output_format : {Fwebp, Fjpeg, Fpng}]

HandlerIdle ==
    [pc |-> "idle", temp_file_path |-> None, created |-> None, exc |-> "none",
     status |-> 0]

InitApi ==
    /\ PipeIdle
    /\ fn_in \in [fn : {"process_image"}, upload : [Uploads -> UploadInputs]]
    /\ fn_out = [fn |-> "process_image", handler |-> [u \in Uploads |-> HandlerIdle],
                 tmp |-> {}]

\* the handler's locals move on; the temporary directory becomes tmp
ApiStep(u, handler, tmp) ==
    /\ fn_out' = [fn_out EXCEPT !.handler[u] = handler, !.tmp = tmp]
    /\ UNCHANGED <<pipeVars, fn_in>>

\* raise: control passes to the except clauses
ApiRaise(u, exc, status) ==
    ApiStep(u, [fn_out.handler[u] EXCEPT !.pc = "except", !.exc = exc,
                                         !.status = status], fn_out.tmp)

\* the request arrives: temp_file_path = None
ApiCall(u) ==
    /\ fn_in.fn = "process_image"
    /\ fn_out.handler[u].pc \in {"idle", "finished"}
    /\ ApiStep(u, [HandlerIdle EXCEPT !.pc = "check"], fn_out.tmp)

\* the three checks on the request.  ImageServiceConfig has no field
\* max_file_size: for a file of a declared size the comparison raises an
\* AttributeError, and the 413 is never reached
ApiCheck(u) ==
    /\ fn_in.fn = "process_image"
    /\ fn_out.handler[u].pc = "check"
    /\ LET up == fn_in.upload[u]
       IN  IF up.filename = <<>>                               \* not file.filename
           THEN ApiRaise(u, "HTTPException", 400)
           ELSE IF up.size # 0                  \* file.size and file.size > config.max_file_size
           THEN ApiRaise(u, "Exception", 0)
           ELSE IF up.output_format \notin {Fwebp, Fjpeg}
           THEN ApiRaise(u, "HTTPException", 400)
           ELSE ApiStep(u, [fn_out.handler[u] EXCEPT !.pc = "tempfile"], fn_out.tmp)

\* tempfile.NamedTemporaryFile(delete=False, ...): a file of a name not yet
\* taken is created and temp_file_path is set to it, or the creation raises
ApiTempFile(u) ==
    /\ fn_in.fn = "process_image"
    /\ fn_out.handler[u].pc = "tempfile"
    /\ \/ \E n \in TempNames \ fn_out.tmp :
             ApiStep(u, [fn_out.handler[u] EXCEPT !.pc = "read", !.temp_file_path = n,
                                                  !.created = n],
                     fn_out.tmp \cup {n})
       \/ ApiRaise(u, "Exception", 0)

\* content = await file.read(); temp_file.write(content); temp_file.flush():
\* the with block is left with the file closed and kept, or by an exception
ApiRead(u) ==
    /\ fn_in.fn = "process_image"
    /\ fn_out.handler[u].pc = "read"
    /\ \/ ApiStep(u, [fn_out.handler[u] EXCEPT !.pc = "process"], fn_out.tmp)
       \/ \E exc \in {"Exception", "CancelledError"} : ApiRaise(u, exc, 0)

\* document = await processor.process(...), which returns a Document or
\* raises an ImageProcessingError; the response is built and returned
ApiProcess(u) ==
    /\ fn_in.fn = "process_image"
    /\ fn_out.handler[u].pc = "process"
    /\ \/ ApiStep(u, [fn_out.handler[u] EXCEPT !.pc = "finally", !.status = 200],
                  fn_out.tmp)
       \/ \E exc \in {"ImageProcessingError", "CancelledError"} : ApiRaise(u, exc, 0)

\* the status the except clauses answer an exception of type exc with
\* (status is the one an HTTPException already carries)
ExceptStatus(exc, status) ==
    CASE exc = "ImageProcessingError" -> 422
      [] exc = "HTTPException" -> status
      [] exc = "CancelledError" -> 0
      [] OTHER -> 500

\* the except clauses: an ImageProcessingError becomes a 422, an
\* HTTPException is raised again, any other Exception becomes a 500; a
\* CancelledError is no Exception and passes
ApiExcept(u) ==
    /\ fn_in.fn = "process_image"
    /\ fn_out.handler[u].pc = "except"
    /\ LET h == fn_out.handler[u]
           status == ExceptStatus(h.exc, h.status)
           exc == IF h.exc = "CancelledError" THEN h.exc ELSE "HTTPException"
       IN  ApiStep(u, [h EXCEPT !.pc = "finally", !.exc = exc, !.status = status],
                   fn_out.tmp)

\* a handler that removes its file as the last statement of the try block,
\* which an exception skips
ApiFinally_OnReturn(u) ==
    /\ fn_in.fn = "process_image"
    /\ fn_out.handler[u].pc = "finally"
    /\ LET h == fn_out.handler[u]
       IN  ApiStep(u, [h EXCEPT !.pc = "finished"],
                   IF h.exc = "none" /\ h.temp_file_path # None
                   THEN fn_out.tmp \ {h.temp_file_path}
                   ELSE fn_out.tmp)

\* finally: if temp_file_path and os.path.exists(temp_file_path):
\* os.unlink(temp_file_path); the response or the exception leaves the handler
ApiFinally(u) ==
    /\ fn_in.fn = "process_image"
    /\ fn_out.handler[u].pc = "finally"
    /\ LET h == fn_out.handler[u]
       IN  ApiStep(u, [h EXCEPT !.pc = "finished"],
                   IF h.temp_file_path # None /\ h.temp_file_path \in fn_out.tmp
                   THEN fn_out.tmp \ {h.temp_file_path}
                   ELSE fn_out.tmp)

NextApi ==
    \E u \in Uploads :
        \/ ApiCall(u)
        \/ ApiCheck(u)
        \/ ApiTempFile(u)
        \/ ApiRead(u)
        \/ ApiProcess(u)
        \/ ApiExcept(u)
        \/ ApiFinally(u)

SpecApi == InitApi /\ [][NextApi]_vars

(***************************************************************************)
(* MetadataExtractor.extract_exif_data on its own.  An EXIF value is its    *)
(* type and its length; a returned mapping is the set of its items.        *)
(***************************************************************************)
\* values longer than this are skipped as binary data
exif_text_limit == 200

\* the tags of the image: Make, Orientation, MakerNote and a tag that
\* PIL.ExifTags.TAGS does not name
TagIds == {271, 274, 37500, 59999}

\* TAGS.get(tag_id, tag_id)
TagName(tag_id) ==
    CASE tag_id = 271 -> "Make"
      [] tag_id = 274 -> "Orientation"
      [] tag_id = 37500 -> "MakerNote"
      [] OTHER -> "59999"

useful_fields ==
    {"Make", "Model", "DateTime", "DateTimeOriginal", "ExifImageWidth", "ExifImageHeight",
     "Orientation", "XResolution", "YResolution", "ResolutionUnit", "Software",
     "ColorSpace", "WhiteBalance"}

ExifValue(kind, len, utf8) == [kind |-> kind, len |-> len, utf8 |-> utf8]

\* the tag is not in the image
Absent == ExifValue("absent", 0, TRUE)

\* the values a tag can have: a text, short or long; bytes that are UTF-8 or
\* not; a number
ExifValues ==
    {ExifValue("str", n, TRUE) : n \in {0, exif_text_limit, exif_text_limit + 1}}
        \cup {ExifValue("bytes", n, u) : n \in {1, exif_text_limit - 6, exif_text_limit + 1},
                                         u \in BOOLEAN}
        \cup {ExifValue("int", 1, TRUE)}

\* value.decode('utf-8') of bytes, or str(value) when they do not decode:
\* the b'...' literal, with one byte of the value escaped at the least
Readable(value) ==
    IF value.kind # "bytes" THEN value
    ELSE IF value.utf8 THEN ExifValue("str", value.len, TRUE)
    ELSE ExifValue("str", value.len + 6, TRUE)

NoneMap == [kind |-> "None", items |-> {}]
Dict(items) == [kind |-> "dict", items |-> items]

\* an extract_exif_data that returns the mapping it has built, empty or not
extract_exif_data_ReturnsEmpty(enabled, raises, exif) ==
    IF ~enabled \/ raises THEN NoneMap
    ELSE LET present == {t \in TagIds : exif[t] # Absent}
             exif_data == {t \in present :
                              ~(Readable(exif[t]).kind = "str"
                                /\ Readable(exif[t]).len > exif_text_limit)}
             useful_exif == {t \in exif_data : TagName(t) \in useful_fields}
         IN  IF present = {} THEN NoneMap
             ELSE Dict({<<TagName(t), Readable(exif[t])>> : t \in useful_exif})

\* MetadataExtractor.extract_exif_data; raises tells whether image.getexif()
\* raises
extract_exif_data(enabled, raises, exif) ==
    IF ~enabled \/ raises THEN NoneMap
    ELSE LET present == {t \in TagIds : exif[t] # Absent}
             exif_data == {t \in present :
                              ~(Readable(exif[t]).kind = "str"
                                /\ Readable(exif[t]).len > exif_text_limit)}
             useful_exif == {t \in exif_data : TagName(t) \in useful_fields}
         IN  IF present = {} \/ useful_exif = {} THEN NoneMap
             ELSE Dict({<<TagName(t), Readable(exif[t])>> : t \in useful_exif})

InitExif ==
    /\ PipeIdle
    /\ fn_in \in [fn : {"extract_exif_data"}, enabled : BOOLEAN, raises : BOOLEAN,
                  exif : [TagIds -> ExifValues \cup {Absent}]]
    /\ fn_out = [fn |-> "none"]

ApplyExif ==
    /\ fn_in.fn = "extract_exif_data" /\ fn_out.fn = "none"
    /\ fn_out' = [fn |-> "extract_exif_data",
                  value |-> extract_exif_data(fn_in.enabled, fn_in.raises, fn_in.exif)]
    /\ UNCHANGED <<pipeVars, fn_in>>

NextExif == ApplyExif

SpecExif == InitExif /\ [][NextExif]_vars

(***************************************************************************)
(* The properties.                                                         *)
(***************************************************************************)
DocOf(r) == result[r].document
PageOf(r) == DocOf(r).pages[1]

\* a Page with every field of a processed image: its number, the stored
\* image it names, its metadata and the back-references to its document
FullyBuilt(page, document) ==
    /\ page.page_number = 1
    /\ page.image_path \in DOMAIN files
    /\ page.metadata.mode # "None"
    /\ page.metadata.format # None
    /\ page.document_id = document.id
    /\ page.document_name = document.title

C2_MetadataFailureNotFatal ==
    \A r \in Requests : ~(result[r].kind = "raised" /\ result[r].stage = "metadata")

\* the request has gone through create_thumbnail and got no thumbnail
ThumbnailFailed(r) ==
    /\ loc[r].file_size >= 0
    /\ pc[r] \in {"metadata", "page", "create_document", "done"}
    /\ loc[r].thumbnail_path = None

\* C3: a request whose main image was persisted and whose thumbnail failed
\* still returns a completed Document, with thumbnail_path = null.
C3_ThumbnailFailureNotFatal ==
    \A r \in Requests :
        pc[r] = "done" /\ ThumbnailFailed(r) =>
            /\ result[r].kind = "returned"
            /\ DocOf(r).status = "completed"
            /\ PageOf(r).thumbnail_path = None

\* C4: in every returned Document, under any interleaving of the requests,
\* the metadata of the page has width > 0, height > 0 and file_size > 0.
C4_PositiveMetadata ==
    \A r \in Requests :
        result[r].kind = "returned" =>
            /\ PageOf(r).metadata.width > 0
            /\ PageOf(r).metadata.height > 0
            /\ PageOf(r).metadata.file_size > 0

\* the largest pages list and num_pages a Document is constructed with
MaxPages == 3

\* C5: every returned Document has num_pages = len(pages) = 1, and the
\* Document constructor rejects every pages list whose length differs from
\* num_pages.
C5_PagesCount ==
    /\ \A r \in Requests :
          result[r].kind = "returned" =>
              DocOf(r).num_pages = Len(DocOf(r).pages) /\ DocOf(r).num_pages = 1
    /\ \A n \in (0 - 1)..MaxPages, k \in 0..MaxPages :
          Document(<<"d">>, <<"t">>, <<"f">>, n, [i \in 1..k |-> NoPage], "completed",
                   <<>>).ok => k = n

\* a Document was returned, and the constructor accepts a list of the right
\* length and rejects one page announced as two
C5_Witness ==
    /\ \E r \in Requests : result[r].kind = "returned"
    /\ Document(<<"d">>, <<"t">>, <<"f">>, 2, <<NoPage, NoPage>>, "completed", <<>>).ok
    /\ ~Document(<<"d">>, <<"t">>, <<"f">>, 2, <<NoPage>>, "completed", <<>>).ok

\* the extension is in the allow-list when letter case is ignored
ExtensionAllowed(file_path) ==
    \E e \in supported_extensions : Lower(e) = Lower(PathSuffix(file_path))

\* C6: validate_file succeeds exactly when the path is non-empty, the entry
\* exists, is a regular file, is larger than zero bytes and has an extension
\* of the allow-list (case ignored); otherwise it raises ImageProcessingError.
C6_ValidateIff ==
    fn_out.fn = "validate_file" =>
        /\ (fn_out.error = NoError) <=>
              /\ fn_in.file_path \notin {None, <<>>}
              /\ fn_in.kind # "missing"
              /\ fn_in.kind = "file"
              /\ fn_in.size > 0
              /\ ExtensionAllowed(fn_in.file_path)
        /\ fn_out.error # NoError => fn_out.error.type = "ImageProcessingError"

\* validate_file accepted a non-empty regular file with an upper-case extension
C6_Witness ==
    /\ fn_out.fn = "validate_file" /\ fn_out.error = NoError
    /\ fn_in.file_path = <<"a", ".", "J", "P", "G">>
    /\ fn_in.size = 1

\* the request asks for an output format other than webp, jpeg and jpg
UnsupportedOutput(r) ==
    /\ req[r].entry # "none"
    /\ req[r].output_format # None
    /\ Lower(req[r].output_format) \notin {Fwebp, Fjpeg, Fjpg}

\* C7: a request for an output format other than webp, jpeg or jpg is
\* rejected before processing begins: it creates no directory, decodes
\* nothing, writes no file and ends in an invalid-input ImageProcessingError.
C7_UnsupportedOutputRejected ==
    \A r \in Requests :
        UnsupportedOutput(r) =>
            /\ mkdirs[r] = {}
            /\ wrote[r] = {}
            /\ loc[r].original_image = NoImage
            /\ pc[r] = "done" =>
                  result[r].kind = "raised" /\ result[r].stage = "validate"

\* C8: a request that fails in validation, decode or normalization ends in
\* one ImageProcessingError, has built no Page and no Document and has
\* written no file; one that fails in validation has created no directory.
C8_EarlyFailureNoSideEffects ==
    \A r \in Requests :
        result[r].kind = "raised" /\ result[r].stage \in {"validate", "load", "optimize"} =>
            /\ pc[r] = "done"
            /\ result[r].error.type = "ImageProcessingError"
            /\ loc[r].page = NoPage /\ loc[r].metadata = NoMetadata
            /\ wrote[r] = {}
            /\ \A p \in DOMAIN files : files[p].writer # r
            /\ result[r].stage = "validate" => mkdirs[r] = {}

\* one request failed in validation and one in normalization, while the
\* directories of the workspace were created by the second
C8_Witness ==
    /\ result[1].kind = "raised" /\ result[1].stage = "validate"
    /\ result[2].kind = "raised" /\ result[2].stage = "optimize"
    /\ mkdirs[2] # {}

\* the sampled pixel is fully transparent in the alpha mask of the image
FullyTransparent(image) ==
    \/ image.mode \in {"RGBA", "LA"} /\ image.px.a = 0
    \/ image.mode = "P" /\ image.transparency # NoIdx /\ image.px.i = image.transparency

\* C9: for an image of mode RGBA, LA or P, optimize_image returns an image of
\* mode RGB, and a pixel that is fully transparent in the original is the
\* background (255,255,255) in the result (for a result that was not
\* resampled, where the pixels correspond).
C9_AlphaFlattenedToWhite ==
    fn_out.fn = "optimize_image" /\ fn_out.out.ok
       /\ fn_in.image.mode \in {"RGBA", "LA", "P"} =>
        /\ fn_out.out.value.mode = "RGB"
        /\ FullyTransparent(fn_in.image) /\ fn_out.out.value.px # Resampled =>
              fn_out.out.value.px = White

\* out is within one pixel of dim * min(max_width / w, max_height / h)
WithinOnePixel(out, dim, w, h) ==
    /\ (out - 1) * w <= dim * max_width
    /\ (out - 1) * h <= dim * max_height
    /\ (out + 1) * w >= dim * max_width \/ (out + 1) * h >= dim * max_height

\* C10: for an image wider or higher than the maximum, the image that
\* optimize_image returns fits the maximum, and each of its dimensions is
\* within one pixel of the input dimension times ratio.
C10_ScaledWithinBounds ==
    fn_out.fn = "optimize_image" /\ fn_out.out.ok
       /\ (fn_in.image.width > max_width \/ fn_in.image.height > max_height) =>
        /\ fn_out.out.value.width <= max_width
        /\ fn_out.out.value.height <= max_height
        /\ WithinOnePixel(fn_out.out.value.width, fn_in.image.width,
                          fn_in.image.width, fn_in.image.height)
        /\ WithinOnePixel(fn_out.out.value.height, fn_in.image.height,
                          fn_in.image.width, fn_in.image.height)

\* an image over the maximum in both dimensions was scaled down
C10_Witness ==
    /\ fn_out.fn = "optimize_image" /\ fn_out.out.ok
    /\ fn_in.image.width = MaxDim /\ fn_in.image.height = max_height + 1
    /\ fn_out.out.value.width = max_width
    /\ fn_out.out.value.height < max_height

\* C11: an image within the maximum keeps its dimensions exactly, and for
\* every image neither dimension of the result is larger than the input's.
C11_NeverUpscaled ==
    fn_out.fn = "optimize_image" /\ fn_out.out.ok =>
        /\ fn_in.image.width <= max_width /\ fn_in.image.height <= max_height =>
              /\ fn_out.out.value.width = fn_in.image.width
              /\ fn_out.out.value.height = fn_in.image.height
        /\ fn_out.out.value.width <= fn_in.image.width
        /\ fn_out.out.value.height <= fn_in.image.height

\* an image of exactly the maximum size came back at its own size
C11_Witness ==
    /\ fn_out.fn = "optimize_image" /\ fn_out.out.ok
    /\ fn_in.image.width = max_width /\ fn_in.image.height = max_height
    /\ fn_in.image.mode = "RGBA"
    /\ fn_out.out.value.width = max_width /\ fn_out.out.value.height = max_height

\* out is dim * ratio rounded to the nearest integer: twice their distance is
\* at most one
NearestTo(out, dim, ratio) ==
    /\ 2 * out * ratio[2] <= 2 * dim * ratio[1] + ratio[2]
    /\ 2 * out * ratio[2] >= 2 * dim * ratio[1] - ratio[2]

\* C12: when an image is scaled down, each new dimension is the original
\* dimension times ratio = min(max_width/width, max_height/height), rounded
\* to the nearest integer.
C12_RoundedToNearest ==
    fn_out.fn = "optimize_image" /\ fn_out.out.ok
       /\ (fn_in.image.width > max_width \/ fn_in.image.height > max_height) =>
        LET ratio == IF max_width * fn_in.image.height <= max_height * fn_in.image.width
                     THEN <<max_width, fn_in.image.width>>
                     ELSE <<max_height, fn_in.image.height>>
        IN  /\ NearestTo(fn_out.out.value.width, fn_in.image.width, ratio)
            /\ NearestTo(fn_out.out.value.height, fn_in.image.height, ratio)

\* C13: naming is idempotent: the same source path with an unchanged
\* modification time and the same output format gets the same destination
\* filename every time, and a changed modification time gets a different one.
C13_IdempotentNaming ==
    fn_out.fn = "generate_filename" =>
        \A i, j \in 1..Len(fn_out.calls) :
            /\ fn_out.calls[i].mtime = fn_out.calls[j].mtime =>
                  /\ fn_out.calls[i].filename = fn_out.calls[j].filename
                  /\ fn_out.calls[i].save_path = fn_out.calls[j].save_path
            /\ fn_out.calls[i].mtime # fn_out.calls[j].mtime =>
                  /\ fn_out.calls[i].filename # fn_out.calls[j].filename
                  /\ fn_out.calls[i].save_path # fn_out.calls[j].save_path

\* the file was named twice unmodified and once more after a modification
C13_Witness ==
    /\ fn_in.fn = "generate_filename" /\ Len(fn_out.calls) = 3
    /\ fn_out.calls[1].mtime = fn_out.calls[2].mtime
    /\ fn_out.calls[3].mtime # fn_out.calls[1].mtime
    /\ fn_out.calls[1].filename = fn_out.calls[2].filename
    /\ fn_out.calls[3].filename # fn_out.calls[1].filename

\* the request shares its destination with no other request
SoleWriter(r) ==
    \A q \in Requests \ {r} : loc[q].save_path # loc[r].save_path

\* C14: in every returned Document the metadata of the page takes width and
\* height from the normalized image that was persisted and file_size from the
\* stat of the persisted artifact made after the write (the byte size of the
\* request's own output when no other request writes the same file), and
\* takes mode and has_transparency from the original decoded image.
C14_MetadataSources ==
    \A r \in Requests :
        result[r].kind = "returned" =>
            /\ PageOf(r).metadata.width = loc[r].optimized_image.width
            /\ PageOf(r).metadata.height = loc[r].optimized_image.height
            /\ PageOf(r).metadata.file_size = loc[r].file_size
            /\ SoleWriter(r) =>
                  PageOf(r).metadata.file_size =
                      EncodedSize(loc[r].optimized_image, save_format(loc[r].output_format))
            /\ PageOf(r).metadata.mode = loc[r].original_image.mode
            /\ PageOf(r).metadata.has_transparency = check_transparency(loc[r].original_image)

\* an image with an alpha channel was scaled down and saved as jpeg: the
\* metadata has the size of the opaque result and the transparency of the
\* original
C14_Witness ==
    \E r \in Requests :
        /\ result[r].kind = "returned"
        /\ req[r].output_format = Fjpeg
        /\ loc[r].original_image.mode = "RGBA" /\ loc[r].optimized_image.mode = "RGB"
        /\ PageOf(r).metadata.has_transparency
        /\ PageOf(r).metadata.width < loc[r].original_image.width
        /\ PageOf(r).metadata.file_size # StatSrc(req[r].file_path).size
        /\ PageOf(r).metadata.file_size > 0

HexDigits ==
    {"0", "1", "2", "3", "4", "5", "6", "7", "8", "9", "a", "b", "c", "d", "e", "f"}

\* "doc_" followed by hexadecimal digits and nothing else
IsDocHexToken(id) ==
    /\ Len(id) > 4
    /\ SubSeq(id, 1, 4) = <<"d", "o", "c", "_">>
    /\ \A i \in 5..Len(id) : id[i] \in HexDigits

\* C15: the id of a returned Document is the caller's document_id when one is
\* given, and otherwise a generated token: "doc_" and hexadecimal digits.
C15_DocumentId ==
    \A r \in Requests :
        result[r].kind = "returned" =>
            IF req[r].document_id \notin {None, <<>>}
            THEN DocOf(r).id = req[r].document_id
            ELSE IsDocHexToken(DocOf(r).id)

\* the stages of the pipeline the request has run, in order (the hand-over
\* to the pool is not a stage of the pipeline)
NotSubmit(e) == e[1] # "submit"
Stages(r) ==
    LET ran == SelectSeq(hist[r], NotSubmit)
    IN  [i \in 1..Len(ran) |-> ran[i][1]]

SameArgs(p, q) ==
    /\ req[p].file_path = req[q].file_path
    /\ req[p].workspace = req[q].workspace
    /\ req[p].output_format = req[q].output_format
    /\ req[p].document_id = req[q].document_id

\* the filesystem and the clock answered the two requests alike in every
\* stage both of them ran
SameAnswers(p, q) ==
    \A i \in 1..Len(hist[p]), j \in 1..Len(hist[q]) :
        hist[p][i][1] = hist[q][j][1] => hist[p][i][2] = hist[q][j][2]

\* a finished call of process and a finished call of process_sync with the
\* same arguments, answered alike by the environment
Comparable(p, q) ==
    /\ req[p].entry = "process" /\ req[q].entry = "process_sync"
    /\ pc[p] = "done" /\ pc[q] = "done"
    /\ SameArgs(p, q)
    /\ SameAnswers(p, q)

SameRun(p, q) ==
    /\ Stages(p) = Stages(q)
    /\ wrote[p] = wrote[q]
    /\ mkdirs[p] = mkdirs[q]
    /\ result[p] = result[q]

\* the pool took the work of the request: it had not been shut down
Accepted(p) == \A i \in 1..Len(hist[p]) : hist[p][i][1] = "submit" => hist[p][i][2] = "open"

\* C16 as stated: process and process_sync are equivalent: for the same
\* arguments and the same answers of the filesystem they run the same stages,
\* write the same files and end in the same outcome.
C16_EntryPointsEquivalent ==
    \A p, q \in Requests : Comparable(p, q) => SameRun(p, q)

\* C16, amended: process and process_sync are equivalent as long as the pool
\* has not been shut down by cleanup() when process hands its work over.
C16_EquivalentWhilePoolOpen ==
    \A p, q \in Requests : Comparable(p, q) /\ Accepted(p) => SameRun(p, q)

\* a call of process and a call of process_sync, alike in arguments and
\* answers, have both returned their Document
C16_Witness ==
    /\ Comparable(1, 2) /\ Accepted(1)
    /\ result[1].kind = "returned" /\ result[2].kind = "returned"
    /\ Len(Stages(1)) > 6

\* at most max_workers requests are in the pipeline of the pool, and a
\* worker took each of them once
PoolWithinBound ==
    /\ Cardinality(OnWorker) <= max_workers
    /\ \A q \in OnWorker : pool.taken[q] = 1
    /\ \A q \in DOMAIN pc : pool.taken[q] <= 1

\* a request leaves the queue only for a free worker, and from the decode to
\* the assembly of its Page it is neither queued nor taken again
PoolStep ==
    \A r \in DOMAIN pc :
        /\ pc[r] = "queued" /\ pc'[r] # "queued" =>
              /\ Cardinality(OnWorker) < max_workers
              /\ pc'[r] = "load"
        /\ pc[r] \in WorkerStages =>
              /\ pc'[r] \in WorkerStages \cup {"create_document", "done"}
              /\ pool'.taken[r] = pool.taken[r]

Racing(p, q) ==
    /\ p # q
    /\ req[p].file_path = req[q].file_path
    /\ req[p].workspace = req[q].workspace
    /\ loc[p].output_format = loc[q].output_format
    /\ loc[p].save_path # None /\ loc[q].save_path # None

\* the metadata extraction of the request met no failure
MetadataAnswered(r) == \E i \in 1..Len(hist[r]) : hist[r][i] = <<"metadata", TRUE>>

\* the file holds the whole output of request w
CompleteOutputOf(content, w) ==
    /\ content.writer = w
    /\ content.state = "done"
    /\ content.image = loc[w].optimized_image
    /\ content.fmt = save_format(loc[w].output_format)

RanToCompletion(r) ==
    /\ pool.taken[r] = 1
    /\ pc[r] \in {"create_document", "done"}
    /\ Accepted(r)
    /\ result[r].kind = "raised" =>
          result[r].stage \in {"load", "optimize", "save", "metadata", "page"}

\* C19: the worker pool is released only by an explicit cleanup() call, and
\* cleanup() does not return until every request that was submitted to the
\* pool has run to completion: work in flight is drained, never dropped.
C19_DrainOnCleanup ==
    [][/\ pool'.state # pool.state => CleanupCall \/ CleanupReturn
       /\ pool'.state = "shutdown" =>
             /\ Pending' = {}
             /\ \A r \in pool'.inflight : RanToCompletion(r)']_vars

\* cleanup() has returned after a call that found a request waiting in the
\* queue and another one on a worker
C19_Witness ==
    /\ pool.state = "shutdown"
    /\ pool.inflight = {1, 2}
    /\ result[1].kind = "returned"
    /\ pc[2] = "create_document"

\* handler u has just finished
Finishes(u) ==
    fn_out.handler[u].pc # "finished" /\ fn_out'.handler[u].pc = "finished"

Answered(r, stage, answer) ==
    \E i \in 1..Len(hist[r]) : hist[r][i] = <<stage, answer>>

\* request r met an exception no stage classifies: an OS error while the
\* workspace directories were created or while the main image was opened
\* for writing
Unclassified(r) ==
    \/ Answered(r, "ensure_dirs", FALSE)
    \/ Answered(r, "save_open", "OSError")

\* C21: an unexpected, unclassified exception that occurs while a request is
\* processed is answered by the API with the internal-error outcome (500),
\* not with the processing-error outcome (422).
C21_UnexpectedIsInternal ==
    \A r \in Requests :
        /\ req[r].entry = "process"
        /\ result[r].kind = "raised"
        /\ Unclassified(r)
        => ExceptStatus(result[r].error.type, 0) = 500

\* the message of error e has the part `text`
Mentions(e, text) == \E i \in 1..Len(e.message) : e.message[i] = text

StageOrder ==
    <<"validate", "ensure_dirs", "load", "optimize", "save_open", "save_write", "stat",
      "thumbnail", "metadata", "page", "create_document">>

\* the stages that follow the write of the main image
AfterMain == {"thumbnail", "metadata", "page", "create_document"}

\* the stage of the history an exception of `stage` is raised from
RaisingStage(stage) == IF stage = "save" THEN "save_open" ELSE stage

RequestedFormat(r) ==
    IF req[r].output_format \in {None, <<>>} THEN default_output_format
    ELSE req[r].output_format

\* the store of the request: {workspace}/{image_store_subpath}
StoreOf(r) ==
    (IF req[r].workspace \in {None, <<>>} THEN workspace_base ELSE req[r].workspace)
        \o <<"/">> \o image_store_folder

\* the 12 hexadecimal characters a filename can carry: the digest of one of
\* the source paths at one of its modification times
Digests ==
    {Md5Hex12(q \o <<"_", ToString(src[q].mtime)>>) : q \in DOMAIN src}

\* name is img_<12 hex characters>.<ext>
IsMainName(name, ext) ==
    /\ Len(name) = 3 + Len(ext)
    /\ name[1] = "img_" /\ name[2] \in Digests /\ name[3] = "."
    /\ SubSeq(name, 4, Len(name)) = ext

\* C24: for every successful request the main artifact is written at
\* {workspace}/{image_store_subpath}/img_<12 hex characters>.<ext>, where
\* <ext> is "jpg" when the requested format is "jpeg" and the lowercased
\* format name otherwise, and the thumbnail (when produced) is written at
\* {workspace}/{image_store_subpath}/thumbnails/thumb_<stem of the main
\* filename>.jpg; the paths in the returned Page are exactly these two.
C24_StoreLayout ==
    \A r \in Requests :
        result[r].kind = "returned" =>
            LET image_path == PageOf(r).image_path
                thumbnail_path == PageOf(r).thumbnail_path
                store == StoreOf(r)
                name == SubSeq(image_path, Len(store) + 2, Len(image_path))
                ext == IF Lower(RequestedFormat(r)) = Fjpeg
                       THEN <<"j", "p", "g">> ELSE Lower(RequestedFormat(r))
            IN  /\ image_path = store \o <<"/">> \o name
                /\ IsMainName(name, ext)
                /\ image_path \in wrote[r] /\ image_path \in DOMAIN files
                /\ thumbnail_path # None =>
                      /\ thumbnail_path =
                            store \o <<"/">> \o thumbnail_folder
                                  \o <<"/", "thumb_", "img_", name[2], ".", "j", "p", "g">>
                      /\ thumbnail_path \in wrote[r] /\ thumbnail_path \in DOMAIN files
                /\ wrote[r] = {image_path, thumbnail_path} \ {None}

\* a request for jpeg and a request for the default format, webp, have
\* returned, each with its thumbnail
C24_Witness ==
    /\ result[1].kind = "returned" /\ RequestedFormat(1) = Fjpeg
    /\ PageOf(1).thumbnail_path # None
    /\ result[2].kind = "returned" /\ req[2].output_format = None
    /\ PageOf(2).thumbnail_path # None

Surviving(exif) ==
    {t \in TagIds :
        /\ exif[t] # Absent
        /\ TagName(t) \in useful_fields
        /\ ~(Readable(exif[t]).kind = "str" /\ Readable(exif[t]).len > exif_text_limit)}

\* C26: extract_exif_data never returns an empty mapping: it returns null
\* when EXIF extraction is disabled, when the image has no EXIF, when the
\* extraction raises, or when no allow-listed field survives; otherwise it
\* returns a non-empty mapping whose keys are all in the allow-list and which
\* has no text value longer than 200 characters.
C26_ExifNeverEmpty ==
    fn_out.fn = "extract_exif_data" =>
        LET out == fn_out.value
            null == \/ ~fn_in.enabled
                    \/ \A t \in TagIds : fn_in.exif[t] = Absent
                    \/ fn_in.raises
                    \/ Surviving(fn_in.exif) = {}
        IN  /\ out # Dict({})
            /\ null <=> out = NoneMap
            /\ ~null =>
                  /\ out.kind = "dict" /\ out.items # {}
                  /\ \A item \in out.items :
                        /\ item[1] \in useful_fields
                        /\ item[2].kind = "str" => item[2].len <= exif_text_limit
                  /\ {item[1] : item \in out.items} = {TagName(t) : t \in Surviving(fn_in.exif)}

\* the image has a maker of 200 characters, an orientation and a maker note:
\* the first two are returned; and for an image whose only allow-listed tag is
\* too long a text, null is returned
C26_Witness ==
    /\ fn_out.fn = "extract_exif_data"
    /\ \/ /\ fn_in.exif[271] = ExifValue("str", exif_text_limit, TRUE)
          /\ fn_in.exif[37500] # Absent
          /\ {item[1] : item \in fn_out.value.items} = {"Make", "Orientation"}
       \/ /\ fn_in.enabled /\ ~fn_in.raises
          /\ fn_in.exif[271] = ExifValue("bytes", exif_text_limit - 6, FALSE)
          /\ fn_in.exif[274] = Absent /\ fn_in.exif[37500] # Absent
          /\ fn_out.value = NoneMap

\* request r was given no document_id, and its Document was created at the
\* clock reading now
CreatedAt(r, now) ==
    /\ result[r].kind = "returned"
    /\ req[r].document_id \in {None, <<>>}
    /\ Answered(r, "create_document", now)

\* C27: without a document_id of the caller, create_document derives the id
\* from the wall-clock second alone ("doc_img_" and the epoch seconds), so
\* two Documents created without a caller id within the same second receive
\* the same id: generated ids are not unique across requests.
C27_IdsOfTheSameSecond ==
    \A p, q \in Requests : \A now \in 0..MaxClock :
        CreatedAt(p, now) /\ CreatedAt(q, now) =>
            /\ DocOf(p).id = <<"d", "o", "c", "_", "i", "m", "g", "_">> \o Decimal(now)
            /\ DocOf(p).id = DocOf(q).id

\* two requests have returned Documents of one id for two different
\* artifacts
C27_Witness ==
    /\ \E now \in 0..MaxClock : CreatedAt(1, now) /\ CreatedAt(2, now)
    /\ DocOf(1).file_path # DocOf(2).file_path
    /\ DocOf(1).id = DocOf(2).id

\* two returned requests for the same source, one as webp and one as jpeg,
\* each with a thumbnail
TwoFormats(p, q) ==
    /\ result[p].kind = "returned" /\ result[q].kind = "returned"
    /\ req[p].file_path = req[q].file_path /\ req[p].workspace = req[q].workspace
    /\ Lower(RequestedFormat(p)) = Fwebp /\ Lower(RequestedFormat(q)) = Fjpeg
    /\ PageOf(p).thumbnail_path # None /\ PageOf(q).thumbnail_path # None

\* C28: the thumbnail filename depends only on the stem of the main
\* artifact's filename, which does not include the output format: processing
\* the same unmodified source once as webp and once as jpeg writes two
\* distinct main artifacts but the same thumbnail path, so one request
\* overwrites the other's thumbnail and both Documents reference one
\* thumbnail file.
C28_ThumbnailShared ==
    \A p, q \in Requests :
        TwoFormats(p, q) =>
            /\ PageOf(p).image_path # PageOf(q).image_path
            /\ PathStem(PageOf(p).image_path) = PathStem(PageOf(q).image_path)
            /\ PageOf(p).thumbnail_path = PageOf(q).thumbnail_path
            /\ PageOf(p).thumbnail_path \in wrote[p] \cap wrote[q]
            /\ files[PageOf(p).thumbnail_path].writer \in {p, q}
            /\ files[PageOf(p).image_path].writer = p
            /\ files[PageOf(q).image_path].writer = q

\* request 1 made the photo a webp and request 2 made it a jpeg; the one
\* thumbnail both Documents name is the one request 2 wrote
C28_Witness ==
    /\ TwoFormats(1, 2)
    /\ PageOf(1).thumbnail_path = PageOf(2).thumbnail_path
    /\ files[PageOf(1).thumbnail_path].writer = 2
    /\ PageOf(1).image_path # PageOf(2).image_path

\* request r failed in a stage that follows the write of the main image
FailedAfterMain(r) ==
    /\ result[r].kind = "raised"
    /\ result[r].stage \in {"metadata", "page", "create_document"}

\* C29: the pipeline never deletes a file it has written: if a request fails
\* after the main image was persisted (metadata construction, Page
\* validation or Document assembly raises), process / process_sync raises
\* ImageProcessingError while the main artifact, and the thumbnail if one
\* was written, remain in the image store.
C29_NoRollback ==
    \A r \in Requests :
        /\ wrote[r] \subseteq DOMAIN files
        /\ FailedAfterMain(r) =>
              /\ result[r].error.type = "ImageProcessingError"
              /\ loc[r].save_path \in wrote[r]
              /\ loc[r].save_path \in DOMAIN files
              /\ loc[r].thumbnail_path # None => loc[r].thumbnail_path \in DOMAIN files

\* a request has failed in the metadata step and has left its image and its
\* thumbnail in a store that was empty when it was called
C29_Witness ==
    /\ FailedAfterMain(1) /\ pc[2] = "idle"
    /\ loc[1].thumbnail_path # None
    /\ DOMAIN files = {loc[1].save_path, loc[1].thumbnail_path}

\* C30: optimize_image never returns an image with a zero width or height:
\* for an over-size input so elongated that a scaled dimension truncates to
\* 0, the resize step fails and the request ends in ImageProcessingError
\* with no file written, rather than persisting a degenerate image.
C30_NoDegenerateImage ==
    \A r \in Requests :
        /\ loc[r].optimized_image # NoImage =>
              loc[r].optimized_image.width > 0 /\ loc[r].optimized_image.height > 0
        /\ \A q \in DOMAIN files : files[q].image.width > 0 /\ files[q].image.height > 0
        /\ (/\ req[r].file_path = PLong
            /\ \E i \in 1..Len(hist[r]) : hist[r][i][1] = "optimize") =>
              /\ result[r].kind = "raised"
              /\ result[r].stage = "optimize"
              /\ result[r].error.type = "ImageProcessingError"
              /\ Mentions(result[r].error, "Failed to optimize image")
              /\ wrote[r] = {}

\* the request for the elongated image has failed in optimize_image with
\* nothing in the store
C30_Witness ==
    \E r \in Requests :
        /\ req[r].file_path = PLong
        /\ loc[r].original_image.width > max_width /\ loc[r].original_image.height = 1
        /\ result[r].kind = "raised" /\ result[r].stage = "optimize"
        /\ DOMAIN files = {}

====
